---- MODULE Spec2Model ----
(***************************************************************************)
(* State-machine model of phox/gdssim/simrmphotonicmodule.py:              *)
(* SimRMPhotonicModule (mesh rendering with an incremental recolor path    *)
(* and a frame-by-frame animation writer) and the module-level helpers     *)
(* _get_rectangular_mesh_points and _mzi_poly_idx_to_layer_num.            *)
(*                                                                         *)
(* Conventions.  Python indices are 0-based and kept 0-based in every      *)
(* record ("at", "src"); TLA+ sequences are 1-based.  A patch is the       *)
(* record [kind, at]: the kind of shape and the loop indices it was built  *)
(* for (its coordinates are a function of these).  A color is the record   *)
(* [role, at, src, rgb, val]: rgb/val are the RGBA value the code appends  *)
(* (role color + alpha, or colormap + magnitude); role/at/src record which *)
(* loop iteration appended it and which array entry it read.  An uncaught  *)
(* exception is recorded in err and ends the run.                          *)
(***************************************************************************)
EXTENDS Integers, Sequences, FiniteSets, TLC

\* ---------------------------------------------------------------- bounds
MaxPorts == 3
MaxDepth == 2
MaxPoly == 5
MaxSub == 2
MaxBuilds == 2
MaxAnims == 1
MaxLayers == 3
MaxDim == 9
MaxPolyIdx == 30
MaxTensorSub == 4

\* Phase maxima imported from phoxy.components.utils, in units of pi/2.
MAX_THETA == 2
MAX_PHI == 4

PortCounts == 2..MaxPorts
DepthCounts == 1..MaxDepth
PolyCounts == {MaxPoly}
SubCounts == {MaxSub}
LayerCounts == 1..MaxLayers
DimRange == (0 - 1)..MaxDim
PolyIdxRange == 0..MaxPolyIdx
TensorSubCounts == 1..MaxTensorSub
Extensions == {"gif", "mp4", "avi"}
\* Which of the optional arrays a caller leaves at the default None.
OmittedSets == {{}, {"theta"}, {"gamma", "theta", "phi"}}

VARIABLES
    num_ports,                  \* self.num_ports
    depth,                      \* self.depth
    fill_pattern,               \* self.fill_pattern: polygon count of each waveguide path
    valid_mesh_points,          \* self.valid_mesh_points: sequence of <<port, layer>>
    plotted_simulated_fields,   \* self.plotted_simulated_fields
    simulation_patches,         \* self.simulation_patches
    simulation_patches_rgba,    \* self.simulation_patches_rgba
    num_poly_layers,            \* self.num_poly_layers (0: not yet set)
    simulation_patch_collection,\* self.simulation_patch_collection: [patches, facecolors]
    collections_created,        \* number of PatchCollection objects added to axes
    err,                        \* uncaught exception that reached the caller, or "none"
    last,                       \* the most recent plot_field_propagation call
    initial_build,              \* <<role, at>> of each color of the first full build
    anim,                       \* arguments of the animation in progress / last run;
                                \* drawn: the layer of the latest fig.canvas.draw()
    anim_pc,                    \* position inside animate_field_propagation
    layer,                      \* loop variable of the frame loop
    writer,                     \* the movie writer's output container
    frames,                     \* frames grabbed by the writer
    anims_started,              \* number of animate_field_propagation calls so far
    fn_args,                    \* arguments of the last module-level function call
    fn_ret                      \* its result

objVars == <<num_ports, depth, fill_pattern, valid_mesh_points, plotted_simulated_fields,
             simulation_patches, simulation_patches_rgba, num_poly_layers,
             simulation_patch_collection, collections_created>>
callVars == <<err, last, initial_build>>
animVars == <<anim, anim_pc, layer, writer, frames, anims_started>>
fnVars == <<fn_args, fn_ret>>
vars == <<objVars, callVars, animVars, fnVars>>

\* ------------------------------------------------------------- arithmetic
Abs(x) == IF x < 0 THEN 0 - x ELSE x

RECURSIVE GCD(_, _)
GCD(a, b) == IF b = 0 THEN a ELSE GCD(b, a % b)

\* a / b (true division) as a fraction in lowest terms, b > 0.
Frac(a, b) == LET g == GCD(Abs(a), b) IN <<a \div g, b \div g>>

\* ------------------------------------------------- module-level functions
\* Mutant of checkerboard: the odd rows/columns slice assignment is lost.
checkerboard_even_only(dim, num_layers) ==
    [p \in 0..(dim - 2), l \in 0..(num_layers - 1) |->
        IF p % 2 = 0 /\ l % 2 = 0 THEN 1 ELSE 0]

\* checkerboard = np.zeros((dim - 1, num_layers));
\* checkerboard[::2, ::2] = checkerboard[1::2, 1::2] = 1
checkerboard(dim, num_layers) ==
    [p \in 0..(dim - 2), l \in 0..(num_layers - 1) |->
        IF (p % 2 = 0 /\ l % 2 = 0) \/ (p % 2 = 1 /\ l % 2 = 1) THEN 1 ELSE 0]

\* np.where(board == 1) of a rows x cols array, as <<row, col>> pairs in
\* row-major order.
np_where(board, rows, cols) ==
    LET cells == [i \in 1..(rows * cols) |-> <<(i - 1) \div cols, (i - 1) % cols>>]
    IN  SelectSeq(cells, LAMBDA c : board[c[1], c[2]] = 1)

\* np.zeros raises ValueError on a negative dimension.
get_rectangular_mesh_points(dim, num_layers) ==
    IF dim - 1 < 0 \/ num_layers < 0
    THEN [status |-> "ValueError", points |-> <<>>]
    ELSE [status |-> "ok",
          points |-> np_where(checkerboard(dim, num_layers), dim - 1, num_layers)]

\* Mutant of mzi_poly_idx_to_layer_num: the poly_idx == 0 case is dropped.
mzi_poly_idx_to_layer_num_no_zero_case(poly_idx) ==
    LET layer_num_start == ((poly_idx - 4) \div 10) * 4 + 1
        poly_idx_offset == (poly_idx - 4) % 10
    IN  IF poly_idx_offset <= 2 THEN layer_num_start
        ELSE IF poly_idx_offset <= 3 THEN layer_num_start + 1
        ELSE IF poly_idx_offset <= 6 THEN layer_num_start + 2
        ELSE layer_num_start + 3

\* Mutant of mzi_poly_idx_to_layer_num: the third band ends one offset early.
mzi_poly_idx_to_layer_num_short_band(poly_idx) ==
    IF poly_idx = 0 THEN 0
    ELSE LET layer_num_start == ((poly_idx - 4) \div 10) * 4 + 1
             poly_idx_offset == (poly_idx - 4) % 10
         IN  IF poly_idx_offset <= 2 THEN layer_num_start
             ELSE IF poly_idx_offset <= 3 THEN layer_num_start + 1
             ELSE IF poly_idx_offset <= 5 THEN layer_num_start + 2
             ELSE layer_num_start + 3

mzi_poly_idx_to_layer_num(poly_idx) ==
    IF poly_idx = 0 THEN 0
    ELSE LET layer_num_start == ((poly_idx - 4) \div 10) * 4 + 1
             poly_idx_offset == (poly_idx - 4) % 10
         IN  IF poly_idx_offset <= 2 THEN layer_num_start
             ELSE IF poly_idx_offset <= 3 THEN layer_num_start + 1
             ELSE IF poly_idx_offset <= 6 THEN layer_num_start + 2
             ELSE layer_num_start + 3

\* Mutant of mzi_poly_idx_to_layer_color: the gamma region taken as 4 polygons.
mzi_poly_idx_to_layer_color_four_leading(poly_idx) ==
    IF poly_idx < 4 THEN "GAMMA_COLOR"
    ELSE LET poly_idx_offset == (poly_idx - 4) % 10
         IN  IF poly_idx_offset <= 1 THEN "BEAMSPLITTER_COLOR"
             ELSE IF poly_idx_offset <= 2 THEN "THETA_COLOR"
             ELSE IF poly_idx_offset <= 5 THEN "BEAMSPLITTER_COLOR"
             ELSE IF poly_idx_offset <= 8 THEN "PHI_COLOR"
             ELSE "BEAMSPLITTER_COLOR"

mzi_poly_idx_to_layer_color(poly_idx) ==
    IF poly_idx < 3 THEN "GAMMA_COLOR"
    ELSE LET poly_idx_offset == (poly_idx - 4) % 10
         IN  IF poly_idx_offset <= 1 THEN "BEAMSPLITTER_COLOR"
             ELSE IF poly_idx_offset <= 2 THEN "THETA_COLOR"
             ELSE IF poly_idx_offset <= 5 THEN "BEAMSPLITTER_COLOR"
             ELSE IF poly_idx_offset <= 8 THEN "PHI_COLOR"
             ELSE "BEAMSPLITTER_COLOR"

\* ------------------------------------------------------------ call inputs
\* The arrays a caller supplies.  phase_shift_layer has one angle per port in
\* [0, MAX_PHI]; theta_checkerboard / phi_checkerboard are indexed [port, layer]
\* with angles in [0, MAX_THETA] / [0, MAX_PHI].
phase_shift_layer_in == [i \in 0..(num_ports - 1) |-> MAX_PHI - (i % (MAX_PHI + 1))]
theta_checkerboard_in ==
    [p \in 0..(num_ports - 2), l \in 0..(depth - 1) |-> MAX_THETA - (p % (MAX_THETA + 1))]
phi_checkerboard_in ==
    [p \in 0..(num_ports - 2), l \in 0..(depth - 1) |-> (p + l + 1) % (MAX_PHI + 1)]

\* A 2-D field tensor [port, sub_layer] with S sub-layers: [shape1, val].
Fields2(S) ==
    [shape1 |-> S,
     val |-> [r \in 0..(num_ports - 1), c \in 0..(S - 1) |-> ((r + c) % 3) - 1]]

\* The 3-D tensor [layer, port, input] handed to the animation, L layers,
\* nowhere zero: [shape0, val].
Fields3(L) ==
    [shape0 |-> L,
     val |-> [l \in 0..(L - 1), p \in 0..(num_ports - 1), i \in 0..(num_ports - 1) |->
                1 + ((l + p + i) % 2)]]

\* ----------------------------------------------------------- patch builder
Patch(kind, at) == [kind |-> kind, at |-> at]
Color(role, at, src, rgb, val) ==
    [role |-> role, at |-> at, src |-> src, rgb |-> rgb, val |-> val]

\* (*GAMMA_COLOR, phase_shift_layer[idx] / MAX_PHI)
gamma_rgba(idx) ==
    Color("gamma", <<idx>>, <<idx>>, "GAMMA_COLOR", Frac(phase_shift_layer_in[idx], MAX_PHI))

\* Mutant of theta_rgba: the theta angle is scaled by the phi maximum.
theta_rgba_phi_max(point) ==
    Color("theta", point, point, "THETA_COLOR",
          Frac(theta_checkerboard_in[point[1], point[2]], MAX_PHI))

\* (*THETA_COLOR, theta_checkerboard[point[0], point[1]] / MAX_THETA)
theta_rgba(point) ==
    Color("theta", point, point, "THETA_COLOR",
          Frac(theta_checkerboard_in[point[1], point[2]], MAX_THETA))

\* (*PHI_COLOR, phi_checkerboard[point[0], point[1]] / MAX_PHI)
phi_rgba(point) ==
    Color("phi", point, point, "PHI_COLOR",
          Frac(phi_checkerboard_in[point[1], point[2]], MAX_PHI))

\* Mutant of field_layer: the clamp to the tensor's last sub-layer is lost.
field_layer_no_clamp(fields, wvg_poly_idx) == mzi_poly_idx_to_layer_num(wvg_poly_idx)

\* layer = _mzi_poly_idx_to_layer_num(wvg_poly_idx);
\* if layer > fields.shape[1] - 1: layer = fields.shape[1] - 1
field_layer(fields, wvg_poly_idx) ==
    LET l == mzi_poly_idx_to_layer_num(wvg_poly_idx)
    IN  IF l > fields.shape1 - 1 THEN fields.shape1 - 1 ELSE l

\* Mutant of wvg_rgba: the port index is not mirrored.
wvg_rgba_not_mirrored(fields, wvg_idx, wvg_poly_idx) ==
    LET row == wvg_idx
        col == field_layer(fields, wvg_poly_idx)
    IN  Color("wvg", <<wvg_idx, wvg_poly_idx>>, <<row, col>>, "hot", Abs(fields.val[row, col]))

\* light_amplitude_mappable.to_rgba(np.abs(fields[num_ports - 1 - wvg_idx, layer]))
wvg_rgba(fields, wvg_idx, wvg_poly_idx) ==
    LET row == num_ports - 1 - wvg_idx
        col == field_layer(fields, wvg_poly_idx)
    IN  Color("wvg", <<wvg_idx, wvg_poly_idx>>, <<row, col>>, "hot", Abs(fields.val[row, col]))

\* fields[row, layer] raises IndexError when the tensor has no sub-layer
\* (the clamp then yields layer = -1 on an axis of size 0).
wvg_index_error(fields) == fields.shape1 = 0

\* _add_phase_shift_layer: appended only if phase_shift_layer is not None.
add_phase_shift_layer(omitted) ==
    IF "gamma" \in omitted THEN [patches |-> <<>>, rgba |-> <<>>]
    ELSE [patches |-> [n \in 1..num_ports |-> Patch("gamma", <<n - 1>>)],
          rgba |-> [n \in 1..num_ports |-> gamma_rgba(n - 1)]]

\* _add_simulated_theta_phase_shifts: appended only if theta_checkerboard is not None.
add_simulated_theta_phase_shifts(omitted) ==
    IF "theta" \in omitted THEN [patches |-> <<>>, rgba |-> <<>>]
    ELSE [patches |-> [n \in 1..Len(valid_mesh_points) |-> Patch("theta", valid_mesh_points[n])],
          rgba |-> [n \in 1..Len(valid_mesh_points) |-> theta_rgba(valid_mesh_points[n])]]

\* _add_simulated_phi_phase_shifts: appended only if phi_checkerboard is not None.
add_simulated_phi_phase_shifts(omitted) ==
    IF "phi" \in omitted THEN [patches |-> <<>>, rgba |-> <<>>]
    ELSE [patches |-> [n \in 1..Len(valid_mesh_points) |-> Patch("phi", valid_mesh_points[n])],
          rgba |-> [n \in 1..Len(valid_mesh_points) |-> phi_rgba(valid_mesh_points[n])]]

\* _construct_mesh_from_fields, paths wvg_idx = k-1 .. len(fill_pattern)-1:
\* one patch and one color per polygon of each path.
RECURSIVE mesh_patches(_)
mesh_patches(k) ==
    IF k > Len(fill_pattern) THEN <<>>
    ELSE [j \in 1..fill_pattern[k] |-> Patch("wvg", <<k - 1, j - 1>>)] \o mesh_patches(k + 1)

RECURSIVE mesh_rgba(_, _)
mesh_rgba(fields, k) ==
    IF k > Len(fill_pattern) THEN <<>>
    ELSE [j \in 1..fill_pattern[k] |-> wvg_rgba(fields, k - 1, j - 1)] \o mesh_rgba(fields, k + 1)

\* The first path that has a polygon (0 if none has).
first_path_with_polygon ==
    LET S == {k \in 1..Len(fill_pattern) : fill_pattern[k] > 0}
    IN  IF S = {} THEN 0 ELSE CHOOSE k \in S : \A m \in S : k <= m

construct_mesh_from_fields(fields) ==
    LET k == first_path_with_polygon
    IN  IF wvg_index_error(fields) /\ k > 0
        THEN \* the patch is appended, then reading the field raises
             [result |-> "IndexError",
              patches |-> <<Patch("wvg", <<k - 1, 0>>)>>,
              rgba |-> <<>>,
              num_poly_layers |-> fill_pattern[k]]
        ELSE [result |-> "ok",
              patches |-> mesh_patches(1),
              rgba |-> mesh_rgba(fields, 1),
              num_poly_layers |-> IF Len(fill_pattern) = 0 THEN num_poly_layers
                                  ELSE fill_pattern[Len(fill_pattern)]]

\* ---------------------------------------------------------- frame renderer
\* Mutant of full_build_condition: the initialized flag is not consulted.
full_build_condition_replot_only(replot) == replot

\* if not self.plotted_simulated_fields or replot:
full_build_condition(replot) == ~plotted_simulated_fields \/ replot

\* The else branch: self.simulation_patches_rgba = [] and the four loops, in
\* order.  Indexing an omitted (None) array raises TypeError in the loop's
\* first iteration; the colors appended so far stay in the list.
recolor(fields, omitted) ==
    LET g == [n \in 1..num_ports |-> gamma_rgba(n - 1)]
        t == [n \in 1..Len(valid_mesh_points) |-> theta_rgba(valid_mesh_points[n])]
        p == [n \in 1..Len(valid_mesh_points) |-> phi_rgba(valid_mesh_points[n])]
        w == [n \in 1..(num_ports * num_poly_layers) |->
                wvg_rgba(fields, (n - 1) \div num_poly_layers, (n - 1) % num_poly_layers)]
    IN  IF "gamma" \in omitted /\ num_ports > 0
        THEN [result |-> "TypeError", rgba |-> <<>>]
        ELSE IF "theta" \in omitted /\ Len(valid_mesh_points) > 0
        THEN [result |-> "TypeError", rgba |-> g]
        ELSE IF "phi" \in omitted /\ Len(valid_mesh_points) > 0
        THEN [result |-> "TypeError", rgba |-> g \o t]
        ELSE IF wvg_index_error(fields) /\ num_ports * num_poly_layers > 0
        THEN [result |-> "IndexError", rgba |-> g \o t \o p]
        ELSE [result |-> "ok", rgba |-> g \o t \o p \o w]

\* plot_field_propagation(ax, fields, theta_checkerboard, phi_checkerboard,
\* phase_shift_layer, replot=replot): the object's fields after the call and
\* how the call ended.
plot_field_propagation(fields, omitted, replot) ==
    IF full_build_condition(replot)
    THEN LET g == add_phase_shift_layer(omitted)
             t == add_simulated_theta_phase_shifts(omitted)
             p == add_simulated_phi_phase_shifts(omitted)
             m == construct_mesh_from_fields(fields)
             patches == simulation_patches \o g.patches \o t.patches \o p.patches \o m.patches
             rgba == simulation_patches_rgba \o g.rgba \o t.rgba \o p.rgba \o m.rgba
         IN  [path |-> "full",
              result |-> m.result,
              patches |-> patches,
              rgba |-> rgba,
              num_poly_layers |-> m.num_poly_layers,
              collection |-> IF m.result = "ok"
                             THEN [patches |-> patches, facecolors |-> rgba]
                             ELSE simulation_patch_collection,
              created |-> IF m.result = "ok" THEN collections_created + 1
                          ELSE collections_created,
              plotted |-> IF m.result = "ok" THEN TRUE ELSE plotted_simulated_fields]
    ELSE LET r == recolor(fields, omitted)
         IN  [path |-> "recolor",
              result |-> r.result,
              patches |-> simulation_patches,
              rgba |-> r.rgba,
              num_poly_layers |-> num_poly_layers,
              collection |-> IF r.result = "ok"
                             THEN [simulation_patch_collection EXCEPT !.facecolors = r.rgba]
                             ELSE simulation_patch_collection,
              created |-> collections_created,
              plotted |-> plotted_simulated_fields]

Meaning(rgba) == [n \in 1..Len(rgba) |-> <<rgba[n].role, rgba[n].at>>]

\* The object and call bookkeeping after one plot_field_propagation call.
Render(fields, omitted, replot) ==
    LET r == plot_field_propagation(fields, omitted, replot)
    IN  /\ simulation_patches' = r.patches
        /\ simulation_patches_rgba' = r.rgba
        /\ num_poly_layers' = r.num_poly_layers
        /\ simulation_patch_collection' = r.collection
        /\ collections_created' = r.created
        /\ plotted_simulated_fields' = r.plotted
        /\ err' = IF r.result = "ok" THEN "none" ELSE r.result
        /\ last' = [path |-> r.path, replot |-> replot, fields |-> fields,
                    omitted |-> omitted, result |-> r.result]
        /\ initial_build' = IF collections_created = 0 /\ r.created = 1
                            THEN Meaning(r.rgba) ELSE initial_build
        /\ UNCHANGED <<num_ports, depth, fill_pattern, valid_mesh_points>>

NoCall == [path |-> "none", replot |-> FALSE, fields |-> [shape1 |-> 0, val |-> <<>>],
           omitted |-> {}, result |-> "none"]
NoAnim == [ext |-> "none", fields |-> [shape0 |-> 0, val |-> <<>>], input_to_propagate |-> 0,
           omitted |-> {}, fig |-> FALSE, drawn |-> 0 - 1]

\* State after SimRMPhotonicModule.__init__ (depth defaults to num_ports).
Init ==
    /\ num_ports \in PortCounts
    /\ depth \in DepthCounts \cup {num_ports}
    /\ \E n \in PolyCounts : fill_pattern = [k \in 1..num_ports |-> n]
    /\ valid_mesh_points = get_rectangular_mesh_points(num_ports, depth).points
    /\ plotted_simulated_fields = FALSE
    /\ simulation_patches = <<>>
    /\ simulation_patches_rgba = <<>>
    /\ num_poly_layers = 0
    /\ simulation_patch_collection = [patches |-> <<>>, facecolors |-> <<>>]
    /\ collections_created = 0
    /\ err = "none"
    /\ last = NoCall
    /\ initial_build = <<>>
    /\ anim = NoAnim
    /\ anim_pc = "idle"
    /\ layer = 0
    /\ writer = "none"
    /\ frames = <<>>
    /\ anims_started = 0
    /\ fn_args = <<>>
    /\ fn_ret = [status |-> "none", points |-> <<>>]

\* A caller's plot_field_propagation call outside an animation.
PlotFieldPropagation ==
    /\ anim_pc = "idle"
    /\ err = "none"
    /\ \E S \in SubCounts, omitted \in OmittedSets, replot \in BOOLEAN :
          /\ full_build_condition(replot) => collections_created < MaxBuilds
          /\ Render(Fields2(S), omitted, replot)
    /\ UNCHANGED <<animVars, fnVars>>

\* -------------------------------------------------------------- animation
\* Mutant of SupportedExtensions: the lookup accepts any extension.
SupportedExtensions_any == Extensions

SupportedExtensions == {"gif", "mp4"}   \* keys of filetype_dict

\* np.hstack([fields[:layer, :, input_to_propagate].T,
\*            np.zeros((fields.shape[2], fields.shape[0] - layer - 1))])
plot_to_layer_fields(fields, input_to_propagate, lay) ==
    [shape1 |-> lay + (fields.shape0 - lay - 1),
     val |-> [p \in 0..(num_ports - 1), c \in 0..(fields.shape0 - 2) |->
                IF c < lay THEN fields.val[c, p, input_to_propagate] ELSE 0]]

\* animate_field_propagation up to the frame loop: the figure is made, the
\* extension is looked up in filetype_dict (anything else raises), the
\* writer is created and `with writer.saving(...)` opens the output.
AnimStart ==
    /\ anim_pc = "idle"
    /\ err = "none"
    /\ collections_created < MaxBuilds
    /\ anims_started < MaxAnims
    /\ anims_started' = anims_started + 1
    /\ \E ext \in Extensions, L \in LayerCounts, omitted \in OmittedSets,
          inp \in {num_ports \div 2} :
          /\ anim' = [ext |-> ext, fields |-> Fields3(L), input_to_propagate |-> inp,
                      omitted |-> omitted, fig |-> TRUE, drawn |-> 0 - 1]
          /\ IF ext \notin SupportedExtensions
             THEN /\ err' = "Exception"
                  /\ anim_pc' = "raised"
                  /\ UNCHANGED <<layer, writer, frames>>
             ELSE /\ err' = err
                  /\ anim_pc' = "plot_to_layer"
                  /\ layer' = 0
                  /\ writer' = "open"
                  /\ frames' = <<>>
    /\ UNCHANGED <<objVars, last, initial_build, fnVars>>

\* Mutant of plot_to_layer_replot: every frame is rendered with replot = True.
plot_to_layer_replot_always(lay) == TRUE

\* replot=(layer == 0)
plot_to_layer_replot(lay) == lay = 0

\* Mutant of saving_exit: leaving the with-block leaves the output open.
saving_exit_leaves_open(w) == w

\* Leaving `with writer.saving(...)`, normally or by an exception, finishes
\* the writer and closes the output.
saving_exit(w) == "closed"

\* plot_to_layer(layer): render the truncated tensor with replot = (layer == 0),
\* then fig.canvas.draw().  An exception leaves the with-block, which closes
\* the writer.
AnimPlotToLayer ==
    /\ anim_pc = "plot_to_layer"
    /\ LET f == plot_to_layer_fields(anim.fields, anim.input_to_propagate, layer)
           r == plot_field_propagation(f, anim.omitted, plot_to_layer_replot(layer))
       IN  /\ Render(f, anim.omitted, plot_to_layer_replot(layer))
           /\ anim_pc' = IF r.result = "ok" THEN "grab_frame" ELSE "raised"
           /\ writer' = IF r.result = "ok" THEN writer ELSE saving_exit(writer)
           /\ anim' = IF r.result = "ok" THEN [anim EXCEPT !.drawn = layer] ELSE anim
    /\ UNCHANGED <<layer, frames, anims_started, fnVars>>

\* writer.grab_frame() succeeds; the loop advances, and after the last layer
\* the with-block ends and closes the writer.
AnimGrabFrame ==
    /\ anim_pc = "grab_frame"
    /\ frames' = Append(frames, [layer |-> layer, drawn |-> anim.drawn])
    /\ IF layer + 1 < anim.fields.shape0
       THEN /\ layer' = layer + 1
            /\ anim_pc' = "plot_to_layer"
            /\ writer' = writer
       ELSE /\ layer' = layer
            /\ anim_pc' = "idle"
            /\ writer' = saving_exit(writer)
    /\ UNCHANGED <<objVars, callVars, anim, anims_started, fnVars>>

\* writer.grab_frame() fails in the encoder: the exception leaves the
\* with-block (which closes the writer) and reaches the caller.
AnimGrabFrameFails ==
    /\ anim_pc = "grab_frame"
    /\ err' = "IOError"
    /\ anim_pc' = "raised"
    /\ writer' = saving_exit(writer)
    /\ UNCHANGED <<objVars, last, initial_build, anim, layer, frames, anims_started, fnVars>>

Next ==
    \/ PlotFieldPropagation
    \/ AnimStart
    \/ AnimPlotToLayer
    \/ AnimGrabFrame
    \/ AnimGrabFrameFails

Spec == Init /\ [][Next]_vars

\* ----------------------------------------- the topology indexer on its own
\* _get_rectangular_mesh_points applied to arbitrary (dim, num_layers).
CallGetRectangularMeshPoints ==
    /\ \E dim \in DimRange, num_layers \in DimRange :
          /\ fn_args' = <<dim, num_layers>>
          /\ fn_ret' = get_rectangular_mesh_points(dim, num_layers)
    /\ UNCHANGED <<objVars, callVars, animVars>>

NextIndexer == CallGetRectangularMeshPoints

SpecIndexer == Init /\ [][NextIndexer]_vars

\* ------------------------------- the polygon-index mappers on their own
\* _mzi_poly_idx_to_layer_num applied to an arbitrary polygon index.
CallPolyIdxToLayerNum ==
    /\ \E poly_idx \in PolyIdxRange :
          /\ fn_args' = <<"layer_num", poly_idx>>
          /\ fn_ret' = [status |-> "ok", value |-> mzi_poly_idx_to_layer_num(poly_idx)]
    /\ UNCHANGED <<objVars, callVars, animVars>>

\* _mzi_poly_idx_to_layer_color applied to an arbitrary polygon index.
CallPolyIdxToLayerColor ==
    /\ \E poly_idx \in PolyIdxRange :
          /\ fn_args' = <<"layer_color", poly_idx>>
          /\ fn_ret' = [status |-> "ok", value |-> mzi_poly_idx_to_layer_color(poly_idx)]
    /\ UNCHANGED <<objVars, callVars, animVars>>

\* The sub-layer lookup made for one polygon, on either render path, against
\* a tensor with S sub-layers.
CallFieldLayer ==
    /\ \E poly_idx \in PolyIdxRange, S \in TensorSubCounts :
          /\ fn_args' = <<"field_layer", poly_idx, S>>
          /\ fn_ret' = [status |-> "ok",
                        value |-> field_layer([shape1 |-> S, val |-> <<>>], poly_idx)]
    /\ UNCHANGED <<objVars, callVars, animVars>>

NextMapper ==
    \/ CallPolyIdxToLayerNum
    \/ CallPolyIdxToLayerColor
    \/ CallFieldLayer

SpecMapper == Init /\ [][NextMapper]_vars

\* ================================================================ claims

\* ---- C1 (SpecIndexer) ---------------------------------------------------
SameParityCells(dim, num_layers) ==
    {c \in (0..(dim - 2)) \X (0..(num_layers - 1)) : (c[1] + c[2]) % 2 = 0}

\* C1: for num_ports >= 2 and depth >= 1 the indexer returns exactly the
\* same-parity cells of the (num_ports-1) x depth grid, each exactly once
\* (so their count is the number of such cells; 6 for num_ports = depth = 4).
C1_IndexerReturnsSameParityCells ==
    (fn_ret.status # "none" /\ fn_args[1] >= 2 /\ fn_args[2] >= 1) =>
        LET cells == SameParityCells(fn_args[1], fn_args[2])
            pts == fn_ret.points
        IN  /\ fn_ret.status = "ok"
            /\ {pts[i] : i \in 1..Len(pts)} = cells
            /\ Len(pts) = Cardinality(cells)
            /\ (fn_args = <<4, 4>> => Len(pts) = 6)

C1_Witness == fn_args = <<4, 4>> /\ fn_ret.status = "ok" /\ Len(fn_ret.points) = 6

\* ---- C2 (SpecIndexer) ---------------------------------------------------
\* C2: every degenerate input, num_ports < 2 (num_ports = 0 included) or
\* depth < 1, yields an empty set of positions and never raises.  Stated for
\* counts that are at least not negative.
C2_DegenerateInputsYieldEmpty ==
    (fn_ret.status # "none" /\ fn_args[1] >= 0 /\ fn_args[2] >= 0
        /\ (fn_args[1] < 2 \/ fn_args[2] < 1)) =>
        (fn_ret.status = "ok" /\ fn_ret.points = <<>>)

\* ---- C3 -------------------------------------------------------------------
\* C3: whatever inputs the full build accepted, an incremental-recolor pass
\* produces a color sequence of the same length and per-index meaning
\* (gamma per port, theta and phi per valid position, waveguide per port and
\* polygon) as the initial full build.
C3_RecolorMatchesInitialBuild ==
    last.path = "recolor" =>
        (last.result = "ok" /\ Meaning(simulation_patches_rgba) = initial_build)

\* ---- C4 -------------------------------------------------------------------
PlotStep == PlotFieldPropagation \/ AnimPlotToLayer

\* C4: a call takes the full-build path exactly when the object is not yet
\* initialized or replot is true; a full build appends patches of all four
\* kinds, creates one collection and marks the object initialized; any other
\* call leaves the patch sequence, the collection's patches and the
\* initialized flag as they were; the flag never goes back to false.
C4_FullBuildExactlyWhenUninitializedOrReplot ==
    [][PlotStep =>
        /\ (last'.path = "full") <=> (~plotted_simulated_fields \/ last'.replot)
        /\ last'.path \in {"full", "recolor"}
        /\ (last'.path = "full" /\ last'.result = "ok") =>
              /\ plotted_simulated_fields'
              /\ collections_created' = collections_created + 1
              /\ simulation_patch_collection'.patches = simulation_patches'
              /\ Len(simulation_patches') > Len(simulation_patches)
              /\ SubSeq(simulation_patches', 1, Len(simulation_patches)) = simulation_patches
              /\ (last'.omitted = {} =>
                    {simulation_patches'[n].kind :
                        n \in (Len(simulation_patches) + 1)..Len(simulation_patches')}
                    = {"gamma", "theta", "phi", "wvg"})
        /\ (last'.path = "recolor") =>
              /\ simulation_patches' = simulation_patches
              /\ simulation_patch_collection'.patches = simulation_patch_collection.patches
              /\ collections_created' = collections_created
              /\ plotted_simulated_fields' = plotted_simulated_fields
        /\ plotted_simulated_fields => plotted_simulated_fields'
    ]_vars

C4_Witness ==
    /\ last.path = "recolor" /\ last.result = "ok" /\ ~last.replot
    /\ plotted_simulated_fields
    /\ collections_created = 2

\* ---- C5 -------------------------------------------------------------------
RECURSIVE SumTo(_, _)
SumTo(f, k) == IF k = 0 THEN 0 ELSE f[k] + SumTo(f, k - 1)

\* C5: after any call that performs a full build with gamma, theta and phi
\* all supplied, the collection holds exactly num_ports + |validPositions| +
\* |validPositions| + (waveguide-segment count) patches, one color each.
C5_FullBuildPatchCount ==
    (last.path = "full" /\ last.result = "ok" /\ last.omitted = {}) =>
        /\ Len(simulation_patch_collection.patches) =
              num_ports + Len(valid_mesh_points) + Len(valid_mesh_points)
                + SumTo(fill_pattern, Len(fill_pattern))
        /\ Len(simulation_patch_collection.facecolors) =
              Len(simulation_patch_collection.patches)

\* ---- C6 -------------------------------------------------------------------
\* C6: two consecutive calls with replot = false and identical inputs produce
\* identical color sequences, of the length of the initial build's sequence.
C6_RecolorIdempotent ==
    [][(/\ PlotFieldPropagation
        /\ last.path # "none" /\ ~last.replot
        /\ ~last'.replot /\ last'.fields = last.fields /\ last'.omitted = last.omitted)
       => (/\ last'.result = "ok"
           /\ simulation_patches_rgba' = simulation_patches_rgba
           /\ Len(simulation_patches_rgba') = Len(initial_build))
    ]_vars

\* ---- C7 -------------------------------------------------------------------
\* C7: the tensor rendered for frame `layer` shows layers 0..layer inclusive
\* of the chosen input's field and zero in every later layer.
C7_FrameExposesLayersUpToLayer ==
    anim_pc = "grab_frame" =>
        \A c \in 0..(anim.fields.shape0 - 1), p \in 0..(num_ports - 1) :
            IF c <= layer
            THEN /\ c < last.fields.shape1
                 /\ last.fields.val[p, c] = anim.fields.val[c, p, anim.input_to_propagate]
            ELSE c < last.fields.shape1 => last.fields.val[p, c] = 0

\* ---- C8 -------------------------------------------------------------------
AnimReturned == anim.fig /\ anim_pc \in {"idle", "raised"}

\* C8: with a supported format and one field snapshot per mesh layer (at
\* least two layers), the animation emits exactly depth frames, for layers
\* 0..depth-1 in increasing order, each grabbed after the render of that same
\* layer (an encoder failure aside).
C8_OneFramePerLayerInOrder ==
    (AnimReturned /\ anim.ext \in {"gif", "mp4"} /\ anim.fields.shape0 = depth
        /\ depth >= 2 /\ err # "IOError") =>
        frames = [k \in 1..depth |-> [layer |-> k - 1, drawn |-> k - 1]]

\* ---- C9 -------------------------------------------------------------------
\* C9: a call of animate_field_propagation with an extension outside
\* {"gif", "mp4"} raises before any work is done: no render call, no patch
\* built (render state and patch lists unchanged), no writer opened, no frame
\* written.
C9_UnsupportedExtensionRaisesFirst ==
    [][(anim_pc = "idle" /\ anims_started' # anims_started
            /\ anim'.ext \notin {"gif", "mp4"})
       => (/\ err' = "Exception"
           /\ anim_pc' = "raised"
           /\ UNCHANGED <<objVars, last, initial_build, writer, frames>>)
    ]_vars

C9_Witness ==
    /\ err = "Exception" /\ anim.ext = "avi" /\ anim_pc = "raised"
    /\ plotted_simulated_fields /\ writer = "none" /\ frames = <<>>

\* ---- C10 ------------------------------------------------------------------
\* C10: leaving out an optional array never raises in any
\* plot_field_propagation call, on the full-build path or the recolor path.
C10_OmittedOptionalNeverRaises ==
    (last.path # "none" /\ last.omitted # {}) => last.result # "TypeError"

\* ---- C11 (SpecMapper) ---------------------------------------------------
Min(a, b) == IF a <= b THEN a ELSE b

\* C11: for every polygon index >= 0 and every tensor with S >= 1
\* sub-layers, the sub-layer index used to read the tensor is
\* min(subLayerOf(index), S - 1); it lies in 0..S-1 and is S - 1 whenever the
\* computed sub-layer is >= S - 1.
C11_SubLayerClampedIntoTensor ==
    (fn_ret.status = "ok" /\ fn_args[1] = "field_layer") =>
        LET computed == mzi_poly_idx_to_layer_num(fn_args[2])
            S == fn_args[3]
        IN  /\ fn_ret.value = Min(computed, S - 1)
            /\ fn_ret.value \in 0..(S - 1)
            /\ (computed >= S - 1 => fn_ret.value = S - 1)

C11_Witness ==
    /\ fn_ret.status = "ok" /\ fn_args = <<"field_layer", 14, 2>>
    /\ mzi_poly_idx_to_layer_num(14) = 5 /\ fn_ret.value = 1

\* ---- C12 (SpecMapper) ---------------------------------------------------
\* C12: subLayerOf(0) = 0 and subLayerOf(i) <= subLayerOf(i + 1) for every
\* polygon index i >= 0.
C12_SubLayerMonotone ==
    (fn_ret.status = "ok" /\ fn_args[1] = "layer_num") =>
        /\ (fn_args[2] = 0 => fn_ret.value = 0)
        /\ fn_ret.value <= mzi_poly_idx_to_layer_num(fn_args[2] + 1)
        /\ (fn_args[2] > 0 => mzi_poly_idx_to_layer_num(fn_args[2] - 1) <= fn_ret.value)

C12_Witness ==
    fn_ret.status = "ok" /\ fn_args = <<"layer_num", 13>> /\ fn_ret.value = 4

\* ---- C14 (SpecMapper) ---------------------------------------------------
\* floor((index - 4) / 10) and (index - 4) mod 10 by counting, for index >= 0.
UnitOf(index) == IF index < 4 THEN 0 - 1 ELSE CHOOSE u \in 0..index : 10 * u <= index - 4 /\ index - 4 < 10 * u + 10
OffsetOf(index) == index - 4 - 10 * UnitOf(index)
BandOf(offset) ==
    IF offset \in 0..2 THEN 0 ELSE IF offset = 3 THEN 1 ELSE IF offset \in 4..6 THEN 2 ELSE 3

\* C14: for every polygon index > 0, subLayerOf(index) = 4*unit + 1 + band
\* with band 0, 1, 2, 3 for offset in 0..2, {3}, 4..6, 7..9; so indices 0..3
\* map to sub-layer 0 and each following ten polygons fall into four
\* consecutive sub-layers in bands of width 3, 1, 3, 3.
C14_SubLayerBanding ==
    (fn_ret.status = "ok" /\ fn_args[1] = "layer_num") =>
        LET index == fn_args[2]
        IN  /\ (index > 0 =>
                  fn_ret.value = 4 * UnitOf(index) + 1 + BandOf(OffsetOf(index)))
            /\ (index \in 0..3 => fn_ret.value = 0)
            /\ (index >= 4 /\ OffsetOf(index) = 0 =>
                  [k \in 1..10 |-> mzi_poly_idx_to_layer_num(index + k - 1) - fn_ret.value]
                    = <<0, 0, 0, 1, 2, 2, 2, 3, 3, 3>>)

C14_Witness ==
    fn_ret.status = "ok" /\ fn_args = <<"layer_num", 14>> /\ fn_ret.value = 5

\* ---- C15 (SpecMapper) ---------------------------------------------------
\* C15: roleColorOf is the gamma color for index < 3 and, for index >= 3 with
\* offset = (index - 4) mod 10, beam-splitter for offset <= 1, theta for 2,
\* beam-splitter for 3..5, phi for 6..8, beam-splitter for 9; each unit of
\* ten polygons reads beam-splitter / theta / beam-splitter / phi /
\* beam-splitter.
C15_RoleColorBanding ==
    (fn_ret.status = "ok" /\ fn_args[1] = "layer_color") =>
        LET index == fn_args[2]
            offset == OffsetOf(index)
        IN  /\ (index < 3 => fn_ret.value = "GAMMA_COLOR")
            /\ (index >= 3 =>
                  fn_ret.value =
                     IF offset <= 1 THEN "BEAMSPLITTER_COLOR"
                     ELSE IF offset = 2 THEN "THETA_COLOR"
                     ELSE IF offset \in 3..5 THEN "BEAMSPLITTER_COLOR"
                     ELSE IF offset \in 6..8 THEN "PHI_COLOR"
                     ELSE "BEAMSPLITTER_COLOR")
            /\ (index >= 4 /\ offset = 0 =>
                  [k \in 1..10 |-> mzi_poly_idx_to_layer_color(index + k - 1)]
                    = <<"BEAMSPLITTER_COLOR", "BEAMSPLITTER_COLOR", "THETA_COLOR",
                        "BEAMSPLITTER_COLOR", "BEAMSPLITTER_COLOR", "BEAMSPLITTER_COLOR",
                        "PHI_COLOR", "PHI_COLOR", "PHI_COLOR", "BEAMSPLITTER_COLOR">>)

C15_Witness ==
    fn_ret.status = "ok" /\ fn_args = <<"layer_color", 3>> /\ fn_ret.value = "BEAMSPLITTER_COLOR"

\* ---- C13 (Spec) ---------------------------------------------------------
\* The role color, the maximum and the input angle a role-colored slot is
\* expected to be made from.
RoleColorOf(role) ==
    IF role = "gamma" THEN "GAMMA_COLOR" ELSE IF role = "theta" THEN "THETA_COLOR" ELSE "PHI_COLOR"
RoleMaxOf(role) == IF role = "theta" THEN MAX_THETA ELSE MAX_PHI
RoleInputOf(c) ==
    IF c.role = "gamma" THEN phase_shift_layer_in[c.at[1]]
    ELSE IF c.role = "theta" THEN theta_checkerboard_in[c.at[1], c.at[2]]
    ELSE phi_checkerboard_in[c.at[1], c.at[2]]

\* C13: on both render paths every gamma / theta / phi color slot carries its
\* own role color and alpha = input / respective maximum (gamma and phi:
\* MAX_PHI, theta: MAX_THETA); every alpha is in [0, 1], and a gamma input of
\* exactly MAX_PHI gives alpha exactly 1.
C13_RoleAlphaIsInputOverRoleMax ==
    \A n \in 1..Len(simulation_patches_rgba) :
        LET c == simulation_patches_rgba[n]
        IN  c.role \in {"gamma", "theta", "phi"} =>
              /\ c.rgb = RoleColorOf(c.role)
              /\ c.val[2] > 0
              /\ c.val[1] * RoleMaxOf(c.role) = c.val[2] * RoleInputOf(c)
              /\ 0 <= c.val[1] /\ c.val[1] <= c.val[2]
              /\ (c.role = "gamma" /\ phase_shift_layer_in[c.at[1]] = MAX_PHI
                    => c.val = <<1, 1>>)

C13_Witness ==
    /\ last.path = "recolor" /\ last.result = "ok"
    /\ initial_build # <<>>
    /\ \E n \in 1..Len(simulation_patches_rgba) :
          /\ simulation_patches_rgba[n].role = "theta"
          /\ simulation_patches_rgba[n].val = <<1, 1>>
    /\ \E n \in 1..Len(simulation_patches_rgba) :
          /\ simulation_patches_rgba[n].role = "phi"
          /\ simulation_patches_rgba[n].val = <<1, 4>>
    /\ simulation_patches_rgba[1].role = "gamma"
    /\ simulation_patches_rgba[1].val = <<1, 1>>

\* ---- C16 (Spec) ---------------------------------------------------------
\* The waveguide slots a successful call wrote: the last
\* num_ports * num_poly_layers colors, port-major.
WvgSlotCount == num_ports * num_poly_layers
WvgSlot(i, k) ==
    simulation_patches_rgba[Len(simulation_patches_rgba) - WvgSlotCount + i * num_poly_layers + k + 1]

\* C16: after a successful call on either path, the waveguide slot of
\* rendered port i and enumeration index k holds the colormap of
\* |fields[num_ports - 1 - i, min(subLayerOf(k), S - 1)]| of that call's
\* tensor: ports are mirrored and both paths read the same entry for a slot.
C16_WaveguideSlotReadsMirroredPort ==
    (last.result = "ok" /\ last.path \in {"full", "recolor"}) =>
        /\ Len(simulation_patches_rgba) >= WvgSlotCount
        /\ \A i \in 0..(num_ports - 1), k \in 0..(num_poly_layers - 1) :
              LET c == WvgSlot(i, k)
                  row == num_ports - 1 - i
                  col == Min(mzi_poly_idx_to_layer_num(k), last.fields.shape1 - 1)
              IN  /\ c.role = "wvg" /\ c.rgb = "hot"
                  /\ c.at = <<i, k>>
                  /\ c.src = <<row, col>>
                  /\ c.val = Abs(last.fields.val[row, col])

C16_Witness ==
    /\ last.result = "ok" /\ last.path = "recolor"
    /\ last.fields.shape1 = 1
    /\ num_poly_layers = 5
    /\ WvgSlot(0, 4).src = <<num_ports - 1, 0>>
    /\ mzi_poly_idx_to_layer_num(4) = 1
    /\ WvgSlot(0, 4).val = Abs(last.fields.val[num_ports - 1, 0])
    /\ WvgSlot(0, 4).val # Abs(last.fields.val[0, 0])

\* ---- C17 (Spec) ---------------------------------------------------------
\* C17: within an animation the frame of layer 0 is rendered with
\* replot = true and takes the full build; every frame of layer >= 1 is
\* rendered with replot = false and takes the recolor path, which leaves the
\* patch list and the collection's patches as the layer-0 frame made them.
C17_OnlyLayerZeroRebuilds ==
    [][anim_pc = "plot_to_layer" =>
         /\ last'.replot = (layer = 0)
         /\ (layer = 0 => last'.path = "full")
         /\ (layer >= 1 =>
               /\ last'.path = "recolor"
               /\ simulation_patches' = simulation_patches
               /\ simulation_patch_collection'.patches = simulation_patch_collection.patches
               /\ collections_created' = collections_created)]_vars

C17_Witness ==
    /\ anim_pc = "grab_frame" /\ layer = 2
    /\ Len(frames) = 2 /\ frames[1].layer = 0 /\ frames[2].layer = 1
    /\ last.path = "recolor" /\ last.result = "ok" /\ ~last.replot
    /\ simulation_patches = simulation_patch_collection.patches

\* ---- C18 (Spec) ---------------------------------------------------------
\* C18: when the render or the frame grab of a running animation fails, the
\* exception reaches the caller (the run is over: nothing is retried, no
\* further frame is rendered or written) and the output the writer opened is
\* closed.
C18_FailureEndsAnimationAndClosesWriter ==
    [][/\ (anim_pc \in {"plot_to_layer", "grab_frame"} /\ err' # "none") =>
            /\ anim_pc' = "raised"
            /\ writer = "open" /\ writer' = "closed"
            /\ frames' = frames
            /\ layer' = layer
       /\ anim_pc # "raised"]_vars

C18_Witness ==
    /\ anim_pc = "raised" /\ err = "IOError"
    /\ writer = "closed"
    /\ layer = 1 /\ Len(frames) = 1
    /\ anim.fields.shape0 = 3

\* ---- C19 (Spec) ---------------------------------------------------------
\* The number of colors one full build with every optional array appends.
FullBuildColorCount ==
    num_ports + 2 * Len(valid_mesh_points) + SumTo(fill_pattern, Len(fill_pattern))

\* C19: after any sequence of successful plot_field_propagation calls (all
\* optional arrays supplied from the first build on), the number of colors
\* held equals the number of patches in the patch list and in the drawable
\* collection.
C19_OneColorPerPatch ==
    (last.result = "ok" /\ last.omitted = {} /\ Len(initial_build) = FullBuildColorCount) =>
        /\ Len(simulation_patches_rgba) = Len(simulation_patches)
        /\ Len(simulation_patches_rgba) = Len(simulation_patch_collection.patches)

====
